---- MODULE Spec2Model ----
(***************************************************************************)
(* hidpipe: the host-side server (hidpipe-server/src/main.rs), the wire    *)
(* records (hidpipe-shared/src/lib.rs) and the guest's reading of the      *)
(* stream (hidpipe-client/src/main.rs).                                    *)
(*                                                                         *)
(* The server is a single-threaded epoll reactor.  Its state is the evdev  *)
(* registry (fds_to_devs, names_to_fds), the client table (clients) and    *)
(* the epoll interest set.  The kernel and the guests are the environment: *)
(* they plug and unplug devices, queue uevents and input events, connect,  *)
(* send bytes and close.  What the server wrote to a client's socket is    *)
(* kept, frame by frame, in that client's `out`.                           *)
(***************************************************************************)
EXTENDS Integers, Sequences, FiniteSets, TLC

(* ----------------------------- bounds --------------------------------- *)

\* plug, unplug and replayed-add uevents of joysticks during a run
MaxUevents == 3
\* uevents that the server ignores (other nodes, "change") during a run
MaxNoise == 1
\* input events the kernel produces during a run
MaxInput == 2
\* connections accepted during a run
MaxConns == 2
\* what the kernel and the guests do during a run, all kinds together:
\* uevents, input events, connections, partial hello reads, closes (an
\* unplug in the middle of an AddDevice broadcast counts as a uevent only)
MaxEnv == 3

(* ------------------------ program constants --------------------------- *)

\* mem::size_of::<ClientHello>(): one u32
HelloSize == 4
\* the protocol version written in ServerHello
ProtoVersion == 0
\* MessageType discriminants (repr(u32), declaration order)
TagAddDevice == 0
TagRemoveDevice == 1
TagInputEvent == 2
\* AbsoluteAxis codes used by is_joystick
AbsX == 0
AbsY == 1
AbsRX == 3
\* the process's descriptors: stdio is 0..2, the udev monitor socket is
\* opened first, the epoll instance second, the directory stream of the
\* startup scan third; the listening socket takes the directory's number
\* once the scan has closed it.
UdevFd == 3
EpollFd == 4
ListenFd == 5

\* `fd as u32`, `id as u32`, `x as u64`: every value cast is a descriptor
\* number, a non-negative i32 (RawFd), which the u32 and u64 casts keep.
U32(x) == x

(* ------------------------- the environment ---------------------------- *)

\* sysnames of the input subsystem that can appear in a uevent
JoyNames == {"event0", "event1"}
OtherNames == {"event2", "js0", "input0"}
Names == JoyNames \cup OtherNames

\* "inputN" devices have no device node; eventN, jsN have one
HasDevnode(n) == n # "input0"

\* dev_name.starts_with("event")
StartsWithEvent(n) == n \in {"event0", "event1", "event2"}

\* What the kernel reports for each device node: property bits, whether
\* EV_ABS is among the event kinds, the absolute axes and the keys.
\* event0 is a gamepad, event1 a flight stick (no buttons, an RX axis),
\* event2 a touchpad.
Caps(n) ==
    CASE n = "event0" -> [props |-> {}, evabs |-> TRUE,
                          abs |-> {AbsX, AbsY}, keys |-> {"ButtonSouth"}]
      [] n = "event1" -> [props |-> {}, evabs |-> TRUE,
                          abs |-> {AbsX, AbsY, AbsRX}, keys |-> {}]
      [] n = "event2" -> [props |-> {"ButtonPad"}, evabs |-> TRUE,
                          abs |-> {AbsX, AbsY}, keys |-> {"ButtonTouch"}]
      [] OTHER        -> [props |-> {}, evabs |-> FALSE,
                          abs |-> {}, keys |-> {}]

(* ------------------------------ frames -------------------------------- *)

\* One record written with Client::write.  All frames share one shape:
\*   t     the record's type
\*   id    the device id (AddDevice, RemoveDevice, InputEvent)
\*   v     ServerHello: version; Tag: the MessageType; AbsoluteInfo: the
\*         axis whose calibration it carries; InputEvent: the event's
\*         position in the handle's kernel queue (stands for its payload)
\*   bits  AddDevice: absbits
\*   h     InputEvent: the serial of the evdev handle it was read from
\*         (not on the wire; it tells two handles with one fd number apart)
Frame(t, id, v, bits, h) == [t |-> t, id |-> id, v |-> v, bits |-> bits, h |-> h]

ServerHelloFrame == Frame("ServerHello", 0, ProtoVersion, {}, 0)
TagFrame(m) == Frame("Tag", 0, m, {}, 0)
AddDeviceFrame(id, absbits) == Frame("AddDevice", id, 0, absbits, 0)
AbsoluteInfoFrame(axis) == Frame("AbsoluteInfo", 0, axis, {}, 0)
RemoveDeviceFrame(id) == Frame("RemoveDevice", id, 0, {}, 0)
InputEventFrame(id, seq, h) == Frame("InputEvent", id, seq, {}, h)

\* Bitmask::iter(): the set bits in ascending order
RECURSIVE BitsAscending(_)
BitsAscending(bits) ==
    IF bits = {} THEN <<>>
    ELSE LET lo == CHOOSE b \in bits : \A c \in bits : b <= c
         IN  <<lo>> \o BitsAscending(bits \ {lo})

(* --------------------------- pure functions --------------------------- *)

BlockingProps ==
    {"Accelerometer", "PointingStick", "TopButtonPad", "ButtonPad", "SemiMultiTouch"}
JoyKeys == {"ButtonTrigger", "ButtonSouth", "Button1"}
\* RX, RY, Throttle, Rudder, Wheel, Gas, Brake
JoyAxes == {3, 4, 6, 7, 8, 9, 10}

\* is_joystick, on what the device reports
is_joystick(c) ==
    IF c.props \cap BlockingProps # {} THEN FALSE
    ELSE IF ~c.evabs THEN FALSE
    ELSE IF AbsX \notin c.abs \/ AbsY \notin c.abs THEN FALSE
    ELSE c.keys \cap JoyKeys # {} \/ c.abs \cap JoyAxes # {}

\* send_add_device whose AbsoluteInfo loop stops one axis early
send_add_device_short(fd, n) ==
    LET abs  == Caps(n).abs
        bits == BitsAscending(abs)
    IN  <<TagFrame(TagAddDevice), AddDeviceFrame(U32(fd), abs)>>
        \o [i \in 1..(Len(bits) - 1) |-> AbsoluteInfoFrame(bits[i])]

\* The frames send_add_device writes for the handle open on descriptor fd
\* of device node n, when no ioctl and no write fails: the tag, the
\* AddDevice record with id = fd as u32, then one AbsoluteInfo per set bit
\* of absolute_bits(), in the order of Bitmask::iter().
send_add_device(fd, n) ==
    LET abs  == Caps(n).abs
        bits == BitsAscending(abs)
    IN  <<TagFrame(TagAddDevice), AddDeviceFrame(U32(fd), abs)>>
        \o [i \in 1..Len(bits) |-> AbsoluteInfoFrame(bits[i])]

\* an AddDevice broadcast that skips the clients that are not ready
AddDeviceForReady(c, fd, n) == IF c.ready THEN send_add_device(fd, n) ELSE <<>>

\* the closure of the AddDevice broadcast, |client| send_add_device(dev,
\* client): what it writes to client c
AddDeviceFor(c, fd, n) == send_add_device(fd, n)

\* The frames of the RemoveDevice broadcast
RemoveDeviceMsg(id) == <<TagFrame(TagRemoveDevice), RemoveDeviceFrame(id)>>

\* an InputEvent that carries the first event of the queue again
InputEventMsgStale(fd, seq, h) ==
    <<TagFrame(TagInputEvent), InputEventFrame(U32(fd), 1, h)>>

\* InputEvent::new(fd as u32, evt) behind its tag
InputEventMsg(fd, seq, h) ==
    <<TagFrame(TagInputEvent), InputEventFrame(U32(fd), seq, h)>>

RECURSIVE Concat(_)
Concat(ss) == IF ss = <<>> THEN <<>> ELSE Head(ss) \o Concat(Tail(ss))

\* the orders in which a HashMap may yield the elements of S
Orders(S) ==
    {o \in [1..Cardinality(S) -> S] : \A i, j \in DOMAIN o : i # j => o[i] # o[j]}

Without(f, ks) == [k \in DOMAIN f \ ks |-> f[k]]

(* ------------------------------ state --------------------------------- *)

VARIABLES
    plugged,       \* kernel: the joystick nodes physically present
    uevq,          \* kernel: uevents queued on the udev monitor socket
    nUev,          \* joystick uevents queued so far
    nNoise,        \* ignored uevents queued so far
    nInput,        \* input events produced so far
    nEnv,          \* environment events so far, of all kinds
    fds_to_devs,   \* EvdevContainer.fds_to_devs: fd -> open evdev handle
    names_to_fds,  \* EvdevContainer.names_to_fds: sysname -> fd
    nextSerial,    \* serial of the next evdev handle to be opened
    clients,       \* the client table: fd -> Client
    nConn,         \* connections accepted so far
    epoll,         \* the fds registered with the epoll instance
    pc,            \* where the reactor is: "wait", "udev" (in the uevent
                   \* loop), "evdev" (in the read loop of cur), "panic"
    cur,           \* the evdev fd whose read loop is running
    last           \* what the last handler did: its kind, the device id or
                   \* client fd it was about, the clients it hung up and why

\* the guest (hidpipe-client): one process, one connection
VARIABLES
    inputs_by_id,  \* id -> the fd of the synthetic device's open UInputHandle
    fd_to_id,      \* synthetic fd -> id
    guest_epoll,   \* the synthetic fds registered with the guest's epoll
    up,            \* records in the socket's guest-to-server buffer
    guest_pc,      \* "wait" (in epoll.wait or handling), "blocked" (inside
                   \* write_all on the full socket), "panic", "closed"
                   \* (the server has dropped the connection)
    guest_last     \* what the guest's last step did: its kind, the id, the
                   \* fds it closed while they were registered, the
                   \* synthetic fds it wrote an event to

\* one Client read on its own, Client::read called again and again
VARIABLES
    rd             \* the client's buf and filled, the size of the last call,
                   \* its reply and bytes; nxt numbers the stream's next
                   \* byte, base the first byte of the message being read,
                   \* was and n what filled was and what read(2) returned

serverVars == <<plugged, uevq, nUev, nNoise, nInput, nEnv, fds_to_devs, names_to_fds,
                nextSerial, clients, nConn, epoll, pc, cur, last>>
guestVars == <<inputs_by_id, fd_to_id, guest_epoll, up, guest_pc, guest_last>>

vars == <<serverVars, guestVars, rd>>

kernelVars == <<plugged, uevq, nUev, nNoise, nInput>>
registryVars == <<fds_to_devs, names_to_fds, nextSerial>>

\* the descriptors the process holds
OpenFds == {0, 1, 2, UdevFd, EpollFd, ListenFd}
           \cup DOMAIN fds_to_devs \cup DOMAIN clients

MaxFd == ListenFd + Cardinality(JoyNames) + MaxUevents + MaxConns + 1

\* open(2), accept(2): the lowest descriptor not in use
LowestFree ==
    CHOOSE f \in 0..MaxFd : f \notin OpenFds /\ \A g \in 0..(f - 1) : g \in OpenFds

\* an evdev handle just opened on node n
NewHandle(n, serial) ==
    [name |-> n, produced |-> 0, nread |-> 0, gone |-> FALSE, serial |-> serial]

\* Client::new
\* a Client::new that starts out ready
NewClientReady ==
    [ready |-> TRUE, buf |-> <<>>, filled |-> 0,
     eof |-> FALSE, out |-> <<>>, snap |-> [f \in {} |-> 0]]

\* Client::new
NewClient ==
    [ready |-> FALSE, buf |-> <<>>, filled |-> 0,
     eof |-> FALSE, out |-> <<>>, snap |-> [f \in {} |-> 0]]

Did(op, id, dropped) == [op |-> op, id |-> id, dropped |-> dropped]

GuestDid(op, id, closed, wrote) ==
    [op |-> op, id |-> id, closed |-> closed, wrote |-> wrote]

\* the guest's main, up to the loop: connected, hello exchanged, no device
GuestStart ==
    /\ inputs_by_id = [i \in {} |-> 0]
    /\ fd_to_id = [f \in {} |-> 0]
    /\ guest_epoll = {}
    /\ up = 0
    /\ guest_pc = "wait"
    /\ guest_last = GuestDid("start", 0, {}, {})

\* Client::new, and a stream nothing has been read from
ReadStart ==
    [buf |-> <<>>, filled |-> 0, size |-> 0, reply |-> "none", data |-> <<>>,
     nxt |-> 1, base |-> 1, was |-> 0, n |-> 0]

\* main, up to the loop: the startup scan opens the joystick nodes present
\* in directory order (any order) while the directory stream holds
\* descriptor 5, then the monitor and the listening socket are registered.
Init ==
    \E P \in SUBSET JoyNames : \E o \in Orders(P) :
        /\ plugged = P
        /\ uevq = <<>>
        /\ nUev = 0
        /\ nNoise = 0
        /\ nInput = 0
        /\ nEnv = 0
        /\ fds_to_devs = [f \in {ListenFd + i : i \in DOMAIN o} |->
                             NewHandle(o[f - ListenFd], f - ListenFd)]
        /\ names_to_fds = [n \in P |->
                             ListenFd + (CHOOSE i \in DOMAIN o : o[i] = n)]
        /\ nextSerial = Cardinality(P) + 1
        /\ clients = [f \in {} |-> NewClient]
        /\ nConn = 0
        /\ epoll = {UdevFd, ListenFd} \cup {ListenFd + i : i \in DOMAIN o}
        /\ pc = "wait"
        /\ cur = 0
        /\ last = Did("start", 0, {})
        /\ GuestStart
        /\ rd = ReadStart

(* ---------------------- the kernel and the guests --------------------- *)

Uevent(t, n) == [type |-> t, name |-> n]

\* every open handle of node n starts failing its ioctls and reads (ENODEV)
MarkGone(devs, n) ==
    [f \in DOMAIN devs |-> IF devs[f].name = n THEN [devs[f] EXCEPT !.gone = TRUE]
                           ELSE devs[f]]

\* a joystick is plugged in
KernelPlug(n) ==
    /\ UNCHANGED <<guestVars, rd>>
    /\ nEnv < MaxEnv
    /\ nEnv' = nEnv + 1
    /\ n \in JoyNames \ plugged
    /\ nUev < MaxUevents
    /\ plugged' = plugged \cup {n}
    /\ uevq' = Append(uevq, Uevent("add", n))
    /\ nUev' = nUev + 1
    /\ UNCHANGED <<nNoise, nInput, registryVars, clients, nConn, epoll, pc, cur, last>>

\* a joystick is unplugged
KernelUnplug(n) ==
    /\ UNCHANGED <<guestVars, rd>>
    /\ nEnv < MaxEnv
    /\ nEnv' = nEnv + 1
    /\ n \in plugged
    /\ nUev < MaxUevents
    /\ plugged' = plugged \ {n}
    /\ uevq' = Append(uevq, Uevent("remove", n))
    /\ nUev' = nUev + 1
    /\ fds_to_devs' = MarkGone(fds_to_devs, n)
    /\ UNCHANGED <<nNoise, nInput, names_to_fds, nextSerial, clients, nConn,
                   epoll, pc, cur, last>>

\* an "add" uevent for a joystick that stays plugged (udevadm trigger, or
\* the node was plugged between the monitor's creation and the startup scan)
KernelReplay(n) ==
    /\ UNCHANGED <<guestVars, rd>>
    /\ nEnv < MaxEnv
    /\ nEnv' = nEnv + 1
    /\ n \in plugged
    /\ nUev < MaxUevents
    /\ uevq' = Append(uevq, Uevent("add", n))
    /\ nUev' = nUev + 1
    /\ UNCHANGED <<plugged, nNoise, nInput, registryVars, clients, nConn,
                   epoll, pc, cur, last>>

\* the uevents of the input subsystem that do not concern a joystick node
\* of the registry
NoiseUevents ==
    {Uevent("add", "input0"), Uevent("add", "js0"), Uevent("add", "event2"),
     Uevent("remove", "event2"), Uevent("change", "event0")}

KernelNoise(e) ==
    /\ UNCHANGED <<guestVars, rd>>
    /\ nEnv < MaxEnv
    /\ nEnv' = nEnv + 1
    /\ e \in NoiseUevents
    /\ nNoise < MaxNoise
    /\ uevq' = Append(uevq, e)
    /\ nNoise' = nNoise + 1
    /\ UNCHANGED <<plugged, nUev, nInput, registryVars, clients, nConn,
                   epoll, pc, cur, last>>

\* the kernel queues an input event on an open handle
KernelInput(fd) ==
    /\ UNCHANGED <<guestVars, rd>>
    /\ nEnv < MaxEnv
    /\ nEnv' = nEnv + 1
    /\ fd \in DOMAIN fds_to_devs
    /\ ~fds_to_devs[fd].gone
    /\ nInput < MaxInput
    /\ nInput' = nInput + 1
    /\ fds_to_devs' = [fds_to_devs EXCEPT ![fd].produced = @ + 1]
    /\ UNCHANGED <<plugged, uevq, nUev, nNoise, names_to_fds, nextSerial,
                   clients, nConn, epoll, pc, cur, last>>

\* the guest closes its end
GuestClose(fd) ==
    /\ UNCHANGED <<guestVars, rd>>
    /\ nEnv < MaxEnv
    /\ nEnv' = nEnv + 1
    /\ fd \in DOMAIN clients
    /\ ~clients[fd].eof
    /\ clients' = [clients EXCEPT ![fd].eof = TRUE]
    /\ UNCHANGED <<kernelVars, registryVars, nConn, epoll, pc, cur, last>>

(* ----------------------------- the server ----------------------------- *)

\* W maps every client to the frames the closure writes to it.  The fds
\* a write of W[fd] may fail on, and those it must fail on: a client that
\* is written nothing cannot fail; a write to a socket whose peer has
\* closed fails (EPIPE); any other write may fail too (the socket is
\* non-blocking: a full send buffer is an error to write_all).
Written(W) == {fd \in DOMAIN clients : W[fd] # <<>>}
FailSetsOn(S, W) ==
    {F \in SUBSET (S \cap Written(W)) :
        \A fd \in S \cap Written(W) : clients[fd].eof => fd \in F}
FailSets(W) == FailSetsOn(DOMAIN clients, W)

\* hangup_on_error_bcast: f is applied to every client; the clients in F,
\* for which it returned an error, are deregistered and dropped by retain,
\* the others keep their entry and have been written W[fd].
hangup_on_error_bcast(F, W) ==
    [fd \in DOMAIN clients \ F |->
        [clients[fd] EXCEPT !.out = @ \o W[fd]]]

Dropped(F, why) == {<<fd, why>> : fd \in F}

\* EvdevContainer::remove that forgets the handle in fds_to_devs
remove_name_only(n) ==
    [id    |-> U32(names_to_fds[n]),
     names |-> Without(names_to_fds, {n}),
     devs  |-> fds_to_devs]

\* EvdevContainer::remove for a name names_to_fds holds: the id it returns
\* and the two maps afterwards
remove(n) ==
    [id    |-> U32(names_to_fds[n]),
     names |-> Without(names_to_fds, {n}),
     devs  |-> Without(fds_to_devs, {names_to_fds[n]})]

\* main, the EventType::Remove arm: EvdevContainer::remove, then the
\* RemoveDevice broadcast
HotplugRemove(e) ==
    IF e.name \in DOMAIN names_to_fds
    THEN LET id == remove(e.name).id
             W == [fd \in DOMAIN clients |-> RemoveDeviceMsg(id)]
         IN  /\ names_to_fds' = remove(e.name).names
             /\ fds_to_devs' = remove(e.name).devs
             /\ \E F \in FailSets(W) :
                   /\ clients' = hangup_on_error_bcast(F, W)
                   /\ epoll' = (epoll \ {id}) \ F
                   /\ last' = Did("remove", id, Dropped(F, "write"))
             /\ UNCHANGED <<plugged, nUev, nEnv, nextSerial>>
    ELSE /\ last' = Did("remove_unknown", 0, {})
         /\ UNCHANGED <<plugged, nUev, nEnv, registryVars, clients, epoll>>

\* EvdevContainer::check_and_add on a node that is opened and is a
\* joystick, then the AddDevice broadcast (main, the Ok(Some(dev)) arm).
\* The device may be unplugged while the broadcast runs: the clients in S
\* have been served by then (the write to those in F failed), and for every
\* other client the first ioctl of send_add_device fails (ENODEV).  (An
\* unplug after the last client was served is KernelUnplug.)
HotplugAddJoystick(e) ==
    LET raw == LowestFree
        W == [fd \in DOMAIN clients |-> AddDeviceFor(clients[fd], raw, e.name)]
        opened == (raw :> NewHandle(e.name, nextSerial)) @@ fds_to_devs
    IN  /\ names_to_fds' = (e.name :> raw) @@ names_to_fds
        /\ nextSerial' = nextSerial + 1
        /\ \/ /\ fds_to_devs' = opened
              /\ \E F \in FailSets(W) :
                    /\ clients' = hangup_on_error_bcast(F, W)
                    /\ epoll' = (epoll \cup {raw}) \ F
                    /\ last' = Did("add", U32(raw), Dropped(F, "write"))
              /\ UNCHANGED <<plugged, nUev, nEnv>>
              /\ uevq' = Tail(uevq)
           \/ /\ nUev < MaxUevents
              /\ plugged' = plugged \ {e.name}
              /\ nUev' = nUev + 1
              /\ nEnv' = nEnv
              /\ uevq' = Append(Tail(uevq), Uevent("remove", e.name))
              /\ fds_to_devs' = MarkGone(opened, e.name)
              /\ \E S \in (SUBSET DOMAIN clients) \ {DOMAIN clients} :
                 \E F \in FailSetsOn(S, W) :
                    LET I == DOMAIN clients \ S
                    IN  /\ clients' = hangup_on_error_bcast(F \cup I, W)
                        /\ epoll' = (epoll \cup {raw}) \ (F \cup I)
                        /\ last' = Did("add", U32(raw),
                                       Dropped(F, "write") \cup Dropped(I, "ioctl"))

\* main, the EventType::Add arm
HotplugAdd(e) ==
    IF ~HasDevnode(e.name)
    THEN /\ last' = Did("add_no_devnode", 0, {})
         /\ uevq' = Tail(uevq)
         /\ UNCHANGED <<plugged, nUev, nEnv, registryVars, clients, epoll>>
    ELSE IF ~StartsWithEvent(e.name)
    THEN /\ last' = Did("add_not_event", 0, {})
         /\ uevq' = Tail(uevq)
         /\ UNCHANGED <<plugged, nUev, nEnv, registryVars, clients, epoll>>
    ELSE IF e.name \in JoyNames /\ e.name \notin plugged
    THEN \* File::open fails: the node is gone
         /\ last' = Did("add_open_error", 0, {})
         /\ uevq' = Tail(uevq)
         /\ UNCHANGED <<plugged, nUev, nEnv, registryVars, clients, epoll>>
    ELSE IF ~is_joystick(Caps(e.name))
    THEN /\ last' = Did("add_not_joystick", 0, {})
         /\ uevq' = Tail(uevq)
         /\ UNCHANGED <<plugged, nUev, nEnv, registryVars, clients, epoll>>
    ELSE HotplugAddJoystick(e)

\* main, fd == udev_socket: one round of `for event in udev_socket.iter()`
HotplugEvent ==
    /\ UNCHANGED <<guestVars, rd>>
    /\ pc \in {"wait", "udev"}
    /\ uevq # <<>>
    /\ LET e == Head(uevq)
       IN  CASE e.type = "remove" -> HotplugRemove(e) /\ uevq' = Tail(uevq)
             [] e.type = "add"    -> HotplugAdd(e)
             [] OTHER             ->
                   /\ last' = Did("uevent_ignored", 0, {})
                   /\ uevq' = Tail(uevq)
                   /\ UNCHANGED <<plugged, nUev, nEnv, registryVars, clients, epoll>>
    /\ pc' = "udev"
    /\ UNCHANGED <<nNoise, nInput, nConn, cur>>

\* the uevent iterator is exhausted: back to epoll.wait
HotplugDrained ==
    /\ UNCHANGED <<guestVars, rd>>
    /\ pc = "udev"
    /\ uevq = <<>>
    /\ pc' = "wait"
    /\ UNCHANGED <<kernelVars, nEnv, registryVars, clients, nConn, epoll, cur, last>>

\* an accept arm that puts the client into the table without epoll.add
AcceptUnregistered(ok) ==
    /\ UNCHANGED <<guestVars, rd>>
    /\ pc = "wait"
    /\ nConn < MaxConns
    /\ nEnv < MaxEnv
    /\ IF ok
       THEN LET raw == LowestFree
            IN  /\ clients' = (raw :> NewClient) @@ clients
                /\ epoll' = epoll
                /\ nConn' = nConn + 1
                /\ nEnv' = nEnv + 1
                /\ last' = Did("accept", raw, {})
       ELSE /\ last' = Did("accept_failed", 0, {})
            /\ UNCHANGED <<clients, epoll, nConn, nEnv>>
    /\ UNCHANGED <<kernelVars, registryVars, pc, cur>>

\* main, fd == listen_sock: a connection is pending and accept is called
Accept(ok) ==
    /\ UNCHANGED <<guestVars, rd>>
    /\ pc = "wait"
    /\ nConn < MaxConns
    /\ nEnv < MaxEnv
    /\ IF ok
       THEN LET raw == LowestFree
            IN  /\ clients' = (raw :> NewClient) @@ clients
                /\ epoll' = epoll \cup {raw}
                /\ nConn' = nConn + 1
                /\ nEnv' = nEnv + 1
                /\ last' = Did("accept", raw, {})
       ELSE /\ last' = Did("accept_failed", 0, {})
            /\ UNCHANGED <<clients, epoll, nConn, nEnv>>
    /\ UNCHANGED <<kernelVars, registryVars, pc, cur>>

\* a Client::read that hands the bytes out and leaves buf and filled as
\* the last read left them
ClientReadNoReset(c, size, chunk) ==
    LET n    == Len(chunk)
        buf0 == IF Len(c.buf) = 0 THEN [i \in 1..size |-> 0] ELSE c.buf
        buf1 == [i \in 1..Len(buf0) |->
                    IF c.filled < i /\ i <= c.filled + n THEN chunk[i - c.filled]
                    ELSE buf0[i]]
    IN  IF n = 0
        THEN [reply |-> "Hangup", data |-> <<>>, client |-> [c EXCEPT !.buf = buf0]]
        ELSE IF c.filled + n = size
        THEN [reply |-> "Data", data |-> buf1,
              client |-> [c EXCEPT !.buf = buf1, !.filled = c.filled + n]]
        ELSE [reply |-> "NotReady", data |-> <<>>,
              client |-> [c EXCEPT !.buf = buf1, !.filled = c.filled + n]]

\* a Client::read that puts what it reads at the start of buf
ClientReadAtStart(c, size, chunk) ==
    LET n    == Len(chunk)
        buf0 == IF Len(c.buf) = 0 THEN [i \in 1..size |-> 0] ELSE c.buf
        buf1 == [i \in 1..Len(buf0) |-> IF i <= n THEN chunk[i] ELSE buf0[i]]
    IN  IF n = 0
        THEN [reply |-> "Hangup", data |-> <<>>, client |-> [c EXCEPT !.buf = buf0]]
        ELSE IF c.filled + n = size
        THEN [reply |-> "Data", data |-> buf1,
              client |-> [c EXCEPT !.buf = <<>>, !.filled = 0]]
        ELSE [reply |-> "NotReady", data |-> <<>>,
              client |-> [c EXCEPT !.buf = buf1, !.filled = c.filled + n]]

\* a Client::read that cuts buf down to the bytes it holds when the read
\* is not complete
ClientReadTruncates(c, size, chunk) ==
    LET n    == Len(chunk)
        buf0 == IF Len(c.buf) = 0 THEN [i \in 1..size |-> 0] ELSE c.buf
        buf1 == [i \in 1..Len(buf0) |->
                    IF c.filled < i /\ i <= c.filled + n THEN chunk[i - c.filled]
                    ELSE buf0[i]]
    IN  IF n = 0
        THEN [reply |-> "Hangup", data |-> <<>>, client |-> [c EXCEPT !.buf = buf0]]
        ELSE IF c.filled + n = size
        THEN [reply |-> "Data", data |-> buf1,
              client |-> [c EXCEPT !.buf = <<>>, !.filled = 0]]
        ELSE [reply |-> "NotReady", data |-> <<>>,
              client |-> [c EXCEPT !.buf = SubSeq(buf1, 1, c.filled + n),
                                   !.filled = c.filled + n]]

\* Client::read(size) when socket.read returns the bytes `chunk` (none at
\* end of file): the reply and the client afterwards.  buf is resized to
\* size if it was empty, and the bytes go to buf[filled..].
ClientRead(c, size, chunk) ==
    LET n    == Len(chunk)
        buf0 == IF Len(c.buf) = 0 THEN [i \in 1..size |-> 0] ELSE c.buf
        buf1 == [i \in 1..Len(buf0) |->
                    IF c.filled < i /\ i <= c.filled + n THEN chunk[i - c.filled]
                    ELSE buf0[i]]
    IN  IF n = 0
        THEN [reply |-> "Hangup", data |-> <<>>, client |-> [c EXCEPT !.buf = buf0]]
        ELSE IF c.filled + n = size
        THEN [reply |-> "Data", data |-> buf1,
              client |-> [c EXCEPT !.buf = <<>>, !.filled = 0]]
        ELSE [reply |-> "NotReady", data |-> <<>>,
              client |-> [c EXCEPT !.buf = buf1, !.filled = c.filled + n]]

\* What one non-blocking read(2) into buf[filled..] can return for client c
\* when its socket is readable: between 1 byte and the whole unfilled tail,
\* or nothing once the peer has closed.  The k-th byte a guest sends is
\* written k here, so that the order of the bytes can be seen.
SocketReads(c, size) ==
    LET room == (IF Len(c.buf) = 0 THEN size ELSE Len(c.buf)) - c.filled
    IN  {[i \in 1..n |-> c.filled + i] : n \in 1..room}
        \cup (IF c.eof THEN {<<>>} ELSE {})

\* a hello closure that writes the ServerHello inside the loop
HelloReplyHelloInLoop(o) ==
    Concat([i \in DOMAIN o |->
               <<ServerHelloFrame>> \o send_add_device(o[i], fds_to_devs[o[i]].name)])

\* a hello closure without the catch-up
HelloReplyNoCatchUp(o) == <<ServerHelloFrame>>

\* the frames the hello closure writes when nothing fails: ServerHello,
\* then send_add_device for every handle of the registry, in the order o
HelloReply(o) ==
    <<ServerHelloFrame>>
    \o Concat([i \in DOMAIN o |-> send_add_device(o[i], fds_to_devs[o[i]].name)])

\* The registry as the hello scope finds it: for every id, the serial of
\* the handle and the events read from it so far.  Kept with the client
\* (it is not program state) to say what its catch-up had to cover.
Snapshot ==
    [f \in DOMAIN fds_to_devs |->
        [serial |-> fds_to_devs[f].serial, nread |-> fds_to_devs[f].nread]]

\* main, the hangup_on_error scope entered once the ClientHello is complete;
\* c is the client as Client::read left it
Hello(fd, c) ==
    \/ \* a write fails
       /\ clients' = Without(clients, {fd})
       /\ epoll' = epoll \ {fd}
       /\ last' = Did("hello", fd, {<<fd, "write">>})
       /\ nEnv' = nEnv
    \/ \* an ioctl of send_add_device fails on a device that is gone
       /\ ~c.eof
       /\ \E f \in DOMAIN fds_to_devs : fds_to_devs[f].gone
       /\ clients' = Without(clients, {fd})
       /\ epoll' = epoll \ {fd}
       /\ last' = Did("hello", fd, {<<fd, "ioctl">>})
       /\ nEnv' = nEnv
    \/ \* everything is written; ready is set
       /\ ~c.eof
       /\ \A f \in DOMAIN fds_to_devs : ~fds_to_devs[f].gone
       /\ \E o \in Orders(DOMAIN fds_to_devs) :
             clients' = [clients EXCEPT ![fd] =
                            [c EXCEPT !.out = @ \o HelloReply(o),
                                      !.ready = TRUE,
                                      !.snap = Snapshot]]
       /\ epoll' = epoll
       /\ last' = Did("hello", fd, {})
       /\ nEnv' = nEnv

\* main, the client arm, for a client that is not ready: recv_from_client,
\* then the hello scope if the ClientHello is complete
ClientHelloRead(fd) ==
    LET c == clients[fd]
    IN  \/ \* socket.read fails (the connection was reset)
           /\ c.eof
           /\ clients' = Without(clients, {fd})
           /\ epoll' = epoll \ {fd}
           /\ last' = Did("read", fd, {<<fd, "read">>})
           /\ nEnv' = nEnv
        \/ \E chunk \in SocketReads(c, HelloSize) :
              LET r == ClientRead(c, HelloSize, chunk)
              IN  CASE r.reply = "Hangup" ->
                         /\ clients' = Without(clients, {fd})
                         /\ epoll' = epoll \ {fd}
                         /\ last' = Did("read", fd, {<<fd, "eof">>})
                         /\ nEnv' = nEnv
                    [] r.reply = "NotReady" ->
                         /\ nEnv < MaxEnv
                         /\ nEnv' = nEnv + 1
                         /\ clients' = [clients EXCEPT ![fd] = r.client]
                         /\ epoll' = epoll
                         /\ last' = Did("read", fd, {})
                    [] OTHER -> Hello(fd, r.client)

\* main, `else if let Some(client) = clients.get(&fd)`: the socket of
\* client fd is readable (the guest has sent bytes, or has closed)
ClientReadable(fd) ==
    /\ UNCHANGED <<guestVars, rd>>
    /\ pc = "wait"
    /\ fd \in DOMAIN clients
    /\ IF clients[fd].ready
       THEN \* `continue`
            /\ last' = Did("ready_wake", fd, {})
            /\ UNCHANGED <<clients, epoll, pc, nEnv>>
       ELSE IF Len(clients[fd].buf) \notin {0, HelloSize}
       THEN \* panic!("api misuse")
            /\ pc' = "panic"
            /\ last' = Did("panic", fd, {})
            /\ UNCHANGED <<clients, epoll, nEnv>>
       ELSE /\ ClientHelloRead(fd)
            /\ pc' = pc
    /\ UNCHANGED <<kernelVars, registryVars, nConn, cur>>

\* the closure of the InputEvent broadcast without its ready test
InputEventForAll(c, fd, seq, h) == InputEventMsg(fd, seq, h)

\* the closure of the InputEvent broadcast: what it writes to client c
InputEventFor(c, fd, seq, h) ==
    IF c.ready THEN InputEventMsg(fd, seq, h) ELSE <<>>

\* main, the evdev arm: one round of `while let Ok(count) = evdev.read(..)`
\* that reads an event and broadcasts it to the ready clients
EvdevEvent(fd) ==
    /\ UNCHANGED <<guestVars, rd>>
    /\ pc = "wait" \/ (pc = "evdev" /\ cur = fd)
    /\ fd \in DOMAIN fds_to_devs
    /\ ~fds_to_devs[fd].gone
    /\ fds_to_devs[fd].nread < fds_to_devs[fd].produced
    /\ LET h == fds_to_devs[fd]
           W == [k \in DOMAIN clients |->
                    InputEventFor(clients[k], fd, h.nread + 1, h.serial)]
       IN  \E F \in FailSets(W) :
              /\ clients' = hangup_on_error_bcast(F, W)
              /\ epoll' = epoll \ F
              /\ last' = Did("evdev", U32(fd), Dropped(F, "write"))
    /\ fds_to_devs' = [fds_to_devs EXCEPT ![fd].nread = @ + 1]
    /\ pc' = "evdev"
    /\ cur' = fd
    /\ UNCHANGED <<kernelVars, nEnv, names_to_fds, nextSerial, nConn>>

\* evdev.read returns an error (EAGAIN: the queue is empty; ENODEV: the
\* device is gone): the loop ends, back to epoll.wait
EvdevDrained ==
    /\ UNCHANGED <<guestVars, rd>>
    /\ pc = "evdev"
    /\ fds_to_devs[cur].gone \/ fds_to_devs[cur].nread = fds_to_devs[cur].produced
    /\ pc' = "wait"
    /\ UNCHANGED <<kernelVars, nEnv, registryVars, clients, nConn, epoll, cur, last>>

(* -------------------------- the specification ------------------------- *)

Next ==
    \/ \E n \in JoyNames : KernelPlug(n)
    \/ \E n \in JoyNames : KernelUnplug(n)
    \/ \E n \in JoyNames : KernelReplay(n)
    \/ \E e \in NoiseUevents : KernelNoise(e)
    \/ \E fd \in DOMAIN fds_to_devs : KernelInput(fd)
    \/ \E fd \in DOMAIN clients : GuestClose(fd)
    \/ HotplugEvent
    \/ HotplugDrained
    \/ \E ok \in BOOLEAN : Accept(ok)
    \/ \E fd \in DOMAIN clients : ClientReadable(fd)
    \/ \E fd \in DOMAIN fds_to_devs : EvdevEvent(fd)
    \/ EvdevDrained

Spec == Init /\ [][Next]_vars

(* ----------------------- the guest's reading -------------------------- *)

\* init_uinput: the absolute axes for which the guest reads one
\* AbsoluteInfo record each, in the order it reads them: the set bits of
\* add_dev.absbits as bitmask_from_slice(..).iter() yields them.
GuestAbsReads(absbits) == BitsAscending(absbits)

\* The guest's main on the frames s the server wrote, from frame p on, with
\* `state` "hello" before read_exact(s_hello_data) and "tag" at the top of
\* the loop.  Every read_exact takes the next bytes whatever record they
\* belong to, so a read is aligned only if the next frame is a record of
\* the size it asks for.  "aligned": every frame was consumed as the record
\* it is; "starved": the stream ends inside a message (read_exact waits);
\* "desync": a read took bytes of another record.
RECURSIVE GuestParse(_, _, _)
GuestParse(s, p, state) ==
    IF p > Len(s) THEN "aligned"
    ELSE IF state = "hello"
    THEN \* 4 bytes, read as ServerHello and not looked at
         \* (a tag has the same 4 bytes: it is taken for the hello, and the
         \* read of the next tag takes the bytes of the tagged record)
         IF s[p].t = "ServerHello" THEN GuestParse(s, p + 1, "tag") ELSE "desync"
    ELSE IF s[p].t # "Tag" THEN "desync"
    ELSE IF p = Len(s) THEN "starved"
    ELSE IF s[p].v = TagAddDevice
    THEN IF s[p + 1].t # "AddDevice" THEN "desync"
         ELSE LET n == Len(GuestAbsReads(s[p + 1].bits))
              IN  IF p + 1 + n > Len(s)
                  THEN (IF \A q \in (p + 2)..Len(s) : s[q].t = "AbsoluteInfo"
                        THEN "starved" ELSE "desync")
                  ELSE IF \A q \in (p + 2)..(p + 1 + n) : s[q].t = "AbsoluteInfo"
                  THEN GuestParse(s, p + 2 + n, "tag")
                  ELSE "desync"
    ELSE IF s[p].v = TagRemoveDevice
    THEN (IF s[p + 1].t = "RemoveDevice" THEN GuestParse(s, p + 2, "tag") ELSE "desync")
    ELSE IF s[p].v = TagInputEvent
    THEN (IF s[p + 1].t = "InputEvent" THEN GuestParse(s, p + 2, "tag") ELSE "desync")
    ELSE "desync"

(* ------------------------- stream predicates -------------------------- *)

\* s holds, from frame p on, one complete AddDevice sequence for some id:
\* the tag, the AddDevice record, then exactly one AbsoluteInfo per set bit
\* of its absbits, the axes ascending.  The frame after it, or 0 if not.
AddSeqEnd(s, p) ==
    IF p + 1 > Len(s) THEN 0
    ELSE IF ~(s[p].t = "Tag" /\ s[p].v = TagAddDevice /\ s[p + 1].t = "AddDevice") THEN 0
    ELSE LET bits == s[p + 1].bits
             n    == Cardinality(bits)
         IN  IF p + 1 + n > Len(s) THEN 0
             ELSE IF /\ \A k \in 1..n : /\ s[p + 1 + k].t = "AbsoluteInfo"
                                        /\ s[p + 1 + k].v \in bits
                     /\ \A k \in 1..(n - 1) : s[p + 1 + k].v < s[p + 2 + k].v
                  THEN p + 2 + n
                  ELSE 0

\* the ids of n complete AddDevice sequences that follow each other in s
\* from frame p on, in order; <<0>> if there are not n of them
RECURSIVE AddSeqIds(_, _, _)
AddSeqIds(s, p, n) ==
    IF n = 0 THEN <<>>
    ELSE LET q == AddSeqEnd(s, p)
         IN  IF q = 0 THEN <<0>>
             ELSE LET rest == AddSeqIds(s, q, n - 1)
                  IN  IF rest = <<0>> THEN <<0>> ELSE <<s[p + 1].id>> \o rest

Range(f) == {f[x] : x \in DOMAIN f}

(* ------------------------------ claims -------------------------------- *)

\* C1: the first frame the server writes on a connection is the
\* ServerHello; no tagged message precedes it, so the guest, which takes
\* the first 4 bytes for the ServerHello, reads every later frame as what
\* it is.  (Stated as claimed; the code does not keep it: a hotplug
\* broadcast reaches a client that has not sent its hello yet.)
C1_HelloFirst ==
    \A fd \in DOMAIN clients :
        LET out == clients[fd].out
        IN  /\ out # <<>> => out[1].t = "ServerHello"
            /\ GuestParse(out, 1, "hello") # "desync"

\* C10: a client is dropped only for an error or end of file on its own
\* socket.  (Stated as claimed; the code also drops a client when an ioctl
\* on a device fails inside send_add_device.)
C10_DroppedOnlyForOwnSocket ==
    \A d \in last.dropped : d[2] \in {"read", "eof", "write"}

\* C2: every ready client has been written exactly one ServerHello, and
\* right behind it one complete AddDevice sequence for each id that was in
\* the registry when its ClientHello was complete (each id once, no other
\* frame in between); so a ready client is never written a second
\* ServerHello, whatever the guest sends afterwards.
C2_OneHelloThenCatchUp ==
    \A fd \in DOMAIN clients :
        LET c == clients[fd]
            hellos == {i \in DOMAIN c.out : c.out[i].t = "ServerHello"}
        IN  c.ready =>
              /\ Cardinality(hellos) = 1
              /\ \A i \in hellos :
                    LET n   == Cardinality(DOMAIN c.snap)
                        ids == AddSeqIds(c.out, i + 1, n)
                    IN  /\ Len(ids) = n
                        /\ Range(ids) = {U32(f) : f \in DOMAIN c.snap}

\* reached: a ready client whose catch-up covered two devices is woken
\* again by bytes of the guest
C2_Witness ==
    /\ last.op = "ready_wake"
    /\ last.id \in DOMAIN clients
    /\ clients[last.id].ready
    /\ Cardinality(DOMAIN clients[last.id].snap) = 2

IsAdd(f, id) == f.t = "AddDevice" /\ f.id = id
IsRemove(f, id) == f.t = "RemoveDevice" /\ f.id = id
IsInput(f, id) == f.t = "InputEvent" /\ f.id = id

\* the stream s announces id and has not taken it back since
Announced(s, id) ==
    \E i \in DOMAIN s :
        /\ IsAdd(s[i], id)
        /\ \A j \in (i + 1)..Len(s) : ~IsRemove(s[j], id)

\* C3: for every device of the registry and every ready client, the client
\* has been written an AddDevice for the device's id and no RemoveDevice
\* for that id since.
C3_RegistryAnnounced ==
    \A f \in DOMAIN fds_to_devs : \A fd \in DOMAIN clients :
        clients[fd].ready => Announced(clients[fd].out, U32(f))

\* reached: a ready client was told that an id is removed and then, the
\* descriptor number being used again, that the id is added
C3_Witness ==
    \E f \in DOMAIN fds_to_devs : \E fd \in DOMAIN clients :
        LET out == clients[fd].out
        IN  /\ clients[fd].ready
            /\ \E i, j \in DOMAIN out :
                  /\ i < j
                  /\ IsRemove(out[i], U32(f))
                  /\ IsAdd(out[j], U32(f))

\* the InputEvents on stream s that were read from handle h, in order
InputsOf(s, h) ==
    SelectSeq(s, LAMBDA f : f.t = "InputEvent" /\ f.h = h)

Serials == 1..(nextSerial - 1)

\* the events of handle h read before the client's hello
ReadBeforeHello(c, h) ==
    IF \E f \in DOMAIN c.snap : c.snap[f].serial = h
    THEN c.snap[CHOOSE f \in DOMAIN c.snap : c.snap[f].serial = h].nread
    ELSE 0

\* C5: for every client of the table and every evdev handle, the
\* InputEvents of the handle on the client's stream carry consecutive
\* positions of the handle's kernel queue, ascending (none twice, none
\* left out, none out of order); for a ready client they start with the
\* first event read after its hello and, while the handle is open, end
\* with the last event read.
C5_InputOrder ==
    \A fd \in DOMAIN clients : \A h \in Serials :
        LET c  == clients[fd]
            ev == InputsOf(c.out, h)
        IN  /\ \A k \in 1..(Len(ev) - 1) : ev[k + 1].v = ev[k].v + 1
            /\ \A k \in 1..(Len(ev) - 1) : ev[k + 1].id = ev[k].id
            /\ c.ready /\ ev # <<>> => ev[1].v = ReadBeforeHello(c, h) + 1
            /\ \A f \in DOMAIN fds_to_devs :
                  c.ready /\ fds_to_devs[f].serial = h =>
                     /\ \A k \in DOMAIN ev : ev[k].id = U32(f)
                     /\ Len(ev) = fds_to_devs[f].nread - ReadBeforeHello(c, h)

\* reached: a ready client has been written two events of one handle
C5_Witness ==
    \E fd \in DOMAIN clients : \E h \in Serials :
        /\ clients[fd].ready
        /\ Len(InputsOf(clients[fd].out, h)) = 2

(* steps of the server, for the claims about what one handler does *)

\* a step of the uevent loop that broadcast (a known Remove, an Add of a joystick)
HotplugBroadcastStep == HotplugEvent /\ last'.op \in {"add", "remove"}
\* a step of the read loop of some evdev fd
EvdevStep == \E f \in DOMAIN fds_to_devs : EvdevEvent(f)
BroadcastStep == HotplugBroadcastStep \/ EvdevStep

IsPrefix(s, t) == Len(s) <= Len(t) /\ SubSeq(t, 1, Len(s)) = s
Suffix(s, t) == SubSeq(t, Len(s) + 1, Len(t))

\* the record type a broadcast of kind op writes behind its tag
RecordOf(op) ==
    CASE op = "add" -> "AddDevice" [] op = "remove" -> "RemoveDevice" [] OTHER -> "InputEvent"
TagOf(op) ==
    CASE op = "add" -> TagAddDevice [] op = "remove" -> TagRemoveDevice [] OTHER -> TagInputEvent

\* the frames nw are one message of the broadcast l
IsMessageOf(nw, l) ==
    /\ Len(nw) >= 2
    /\ nw[1].t = "Tag" /\ nw[1].v = TagOf(l.op)
    /\ nw[2].t = RecordOf(l.op) /\ nw[2].id = l.id

\* on any step, a client that stays in the table has its stream appended to
StreamsOnlyGrow ==
    \A fd \in DOMAIN clients \cap DOMAIN clients' :
        IsPrefix(clients[fd].out, clients'[fd].out)

\* the clients a write of the step failed on
WriteFailed(l) == {d[1] : d \in {x \in l.dropped : x[2] = "write"}}

\* C4 (one step): in a broadcast in which a write to some client fails,
\* exactly the clients whose write failed are deregistered and dropped;
\* every other client keeps its entry with ready, buf and filled
\* unchanged, and is written the message of the broadcast (every other
\* client for AddDevice and RemoveDevice, every other ready client for
\* InputEvent), the same frames for all of them.
C4_Step ==
    BroadcastStep /\ WriteFailed(last') # {} =>
        LET kept == DOMAIN clients \ WriteFailed(last')
            addressed == {fd \in kept : last'.op # "evdev" \/ clients[fd].ready}
        IN  /\ DOMAIN clients' = kept
            /\ epoll' \cap DOMAIN clients = kept
            /\ \A fd \in kept :
                  /\ clients'[fd].ready = clients[fd].ready
                  /\ clients'[fd].buf = clients[fd].buf
                  /\ clients'[fd].filled = clients[fd].filled
            /\ \A fd \in addressed :
                  IsMessageOf(Suffix(clients[fd].out, clients'[fd].out), last')
            /\ \A a, b \in addressed :
                  Suffix(clients[a].out, clients'[a].out)
                     = Suffix(clients[b].out, clients'[b].out)

\* C4: a write failure in a broadcast drops exactly the client it happened
\* on; the others stay as they are, are written the message, and are
\* written all later ones behind it in order.  (Stated as claimed; the
\* code does not keep it for an AddDevice broadcast: a client for which an
\* ioctl of send_add_device fails is dropped in the same broadcast, see
\* C10.)
C4_FailureIsolated == [][C4_Step /\ StreamsOnlyGrow]_vars

\* C6 (state part): a client that is not ready has no InputEvent on its
\* stream.
NewClientsHaveNoInput ==
    \A fd \in DOMAIN clients :
        ~clients[fd].ready =>
            \A i \in DOMAIN clients[fd].out : clients[fd].out[i].t # "InputEvent"

\* C6 (step part): an InputEvent broadcast leaves every client that is not
\* ready in the table, registered, with its stream and all else unchanged.
C6_Step ==
    EvdevStep =>
        \A fd \in DOMAIN clients :
            ~clients[fd].ready =>
                /\ fd \in DOMAIN clients'
                /\ clients'[fd] = clients[fd]
                /\ fd \in epoll'

\* C6: an InputEvent is written only to ready clients.
C6_InputOnlyToReady == []NewClientsHaveNoInput /\ [][C6_Step]_vars

\* reached: an InputEvent broadcast with one client not ready (nothing on
\* its stream) and one ready client that was written the event
C6_Witness ==
    /\ last.op = "evdev"
    /\ \E a, b \in DOMAIN clients :
          /\ ~clients[a].ready /\ clients[a].out = <<>>
          /\ clients[b].ready
          /\ clients[b].out # <<>>
          /\ IsInput(clients[b].out[Len(clients[b].out)], last.id)

\* the frames nw are exactly one complete AddDevice sequence for id
IsAddSeqFor(nw, id) ==
    /\ AddSeqEnd(nw, 1) = Len(nw) + 1
    /\ nw[2].id = id

\* the step is a hotplug Add that succeeded: the joystick was registered
\* and its capabilities could be read for every client
SuccessfulAdd ==
    /\ HotplugEvent
    /\ last'.op = "add"
    /\ \A d \in last'.dropped : d[2] # "ioctl"

\* C7 (one step): a successful hotplug Add registers the handle and writes one
\* complete AddDevice sequence for its id, with the device's axes, to
\* every client of the table, ready or not; only a client whose own write
\* failed is without it, and that client is dropped.
C7_Step ==
    SuccessfulAdd =>
        /\ last'.id \in DOMAIN fds_to_devs' \ DOMAIN fds_to_devs
        /\ \A fd \in DOMAIN clients :
              IF fd \in DOMAIN clients'
              THEN /\ clients'[fd].ready = clients[fd].ready
                   /\ IsPrefix(clients[fd].out, clients'[fd].out)
                   /\ IsAddSeqFor(Suffix(clients[fd].out, clients'[fd].out), last'.id)
                   /\ Suffix(clients[fd].out, clients'[fd].out)[2].bits
                         = Caps(fds_to_devs'[last'.id].name).abs
              ELSE fd \in WriteFailed(last')

\* C7: every successful hotplug Add writes the AddDevice sequence to every
\* client, whether it is ready or not.
C7_AddToEveryClient == [][C7_Step]_vars

\* reached: a successful hotplug Add with a client that is not ready and a
\* ready one, both written the AddDevice sequence of the new device
C7_Witness ==
    /\ last.op = "add"
    /\ last.dropped = {}
    /\ \E a, b \in DOMAIN clients :
          /\ ~clients[a].ready
          /\ clients[b].ready
          /\ \A fd \in {a, b} :
                \E p \in DOMAIN clients[fd].out :
                    /\ AddSeqEnd(clients[fd].out, p) = Len(clients[fd].out) + 1
                    /\ clients[fd].out[p + 1].id = last.id

\* C8 (state part): on every stream, an InputEvent with some id that comes
\* after a RemoveDevice with that id has an AddDevice with that id between
\* the two.
NoInputAfterRemove ==
    \A fd \in DOMAIN clients :
        LET s == clients[fd].out
        IN  \A i, j \in DOMAIN s :
                (i < j /\ s[i].t = "RemoveDevice" /\ IsInput(s[j], s[i].id)) =>
                    \E k \in (i + 1)..(j - 1) : IsAdd(s[k], s[i].id)

\* C8 (step part): handling a Remove uevent for a name names_to_fds holds
\* takes the name and its handle out of both maps and out of epoll, leaves
\* the other entries alone, and writes tag and RemoveDevice{id} to every
\* client, ready or not (a client it is not written to is one whose write
\* failed, and is dropped); id is the id the AddDevice announced to every
\* ready client, and the id of every InputEvent read from that handle.
\* Handling a Remove for any other name changes neither the registry nor
\* any client.
C8_Step ==
    \A n \in Names :
        (uevq # <<>> /\ Head(uevq) = Uevent("remove", n) /\ HotplugEvent) =>
            IF n \in DOMAIN names_to_fds
            THEN LET raw == names_to_fds[n]
                     id  == U32(raw)
                 IN  /\ DOMAIN names_to_fds' = DOMAIN names_to_fds \ {n}
                     /\ DOMAIN fds_to_devs' = DOMAIN fds_to_devs \ {raw}
                     /\ \A f \in DOMAIN fds_to_devs' : fds_to_devs'[f] = fds_to_devs[f]
                     /\ \A m \in DOMAIN names_to_fds' : names_to_fds'[m] = names_to_fds[m]
                     /\ raw \notin epoll'
                     /\ \A fd \in DOMAIN clients :
                           IF fd \in DOMAIN clients'
                           THEN /\ IsPrefix(clients[fd].out, clients'[fd].out)
                                /\ Suffix(clients[fd].out, clients'[fd].out)
                                      = <<TagFrame(TagRemoveDevice), RemoveDeviceFrame(id)>>
                           ELSE fd \in WriteFailed(last')
                     /\ \A fd \in DOMAIN clients :
                           LET s == clients[fd].out
                           IN  /\ clients[fd].ready => Announced(s, id)
                               /\ \A i \in DOMAIN s :
                                     (s[i].t = "InputEvent"
                                         /\ s[i].h = fds_to_devs[raw].serial)
                                        => s[i].id = id
            ELSE /\ UNCHANGED registryVars
                 /\ UNCHANGED <<clients, epoll>>

\* C8: a Remove for a known name removes the device and tells every client
\* RemoveDevice{id} with the id of its AddDevice and InputEvent messages; no
\* InputEvent with that id follows before a new AddDevice with it; a Remove
\* for an unknown name does nothing.
C8_RemoveBroadcast == []NoInputAfterRemove /\ [][C8_Step]_vars

\* reached: a Remove was handled, and a ready client that had been written
\* the AddDevice and an InputEvent with the id was written the RemoveDevice
C8_Witness ==
    /\ last.op = "remove"
    /\ \E fd \in DOMAIN clients :
          LET s == clients[fd].out
          IN  /\ clients[fd].ready
              /\ Len(s) >= 2
              /\ IsRemove(s[Len(s)], last.id)
              /\ \E i, j \in DOMAIN s :
                    i < j /\ IsAdd(s[i], last.id) /\ IsInput(s[j], last.id)

\* C9: on every stream, every AddDevice record stands behind its tag and is
\* followed by exactly one AbsoluteInfo per set bit of its absbits, in
\* ascending order of the bits, and then by the end of the stream or the
\* start of the next message; the guest, at the tag, reads as many
\* AbsoluteInfo records as there are, takes the k-th of them for the axis it
\* was written for, and is at the next tag afterwards.
C9_AbsInfoFraming ==
    \A fd \in DOMAIN clients :
        LET s == clients[fd].out
        IN  \A p \in DOMAIN s :
                s[p].t = "AddDevice" =>
                    LET n   == Cardinality(s[p].bits)
                        end == IF p > 1 THEN AddSeqEnd(s, p - 1) ELSE 0
                        reads == GuestAbsReads(s[p].bits)
                    IN  /\ end = p + n + 1
                        /\ end <= Len(s) => s[end].t \in {"Tag", "ServerHello"}
                        /\ Len(reads) = n
                        /\ \A k \in 1..n : s[p + k].v = reads[k]
                        /\ GuestParse(SubSeq(s, p - 1, end - 1), 1, "tag") = "aligned"

\* reached: a stream holds an AddDevice with three axes, its three
\* AbsoluteInfo records and another message behind them
C9_Witness ==
    \E fd \in DOMAIN clients :
        LET s == clients[fd].out
        IN  \E p \in DOMAIN s :
                /\ s[p].t = "AddDevice"
                /\ Cardinality(s[p].bits) = 3
                /\ Len(s) > p + 3
                /\ s[p + 3].t = "AbsoluteInfo"
                /\ s[p + 4].t = "Tag"

(* ------------------- the reactor keeps running ------------------------ *)

\* the descriptor numbers a client socket or an evdev handle can have
FdRange == (ListenFd + 1)..(ListenFd + 2 + MaxConns)

\* main's loop goes on: whenever epoll.wait has an fd to report, the arm
\* of that fd is run sooner or later
Fairness ==
    /\ WF_vars(HotplugEvent)
    /\ WF_vars(HotplugDrained)
    /\ WF_vars(EvdevDrained)
    /\ \A fd \in FdRange : WF_vars(ClientReadable(fd))
    /\ \A fd \in FdRange : WF_vars(EvdevEvent(fd))

FairSpec == Spec /\ Fairness

\* the peer of client fd has closed and the client is still in the table
EofPending(fd) == fd \in DOMAIN clients /\ clients[fd].eof

\* C11: a client whose peer has closed its end is deregistered and removed
\* from the client table sooner or later, whether it is ready or not, as
\* long as the loop keeps running.  (Stated as claimed; the code does not
\* keep it for a ready client, whose socket it never reads again.)
C11_EofClientRemoved ==
    \A fd \in FdRange : EofPending(fd) ~> ~EofPending(fd)

(* ------------------------------ the guest ----------------------------- *)

MaxIds == 2
MaxSockBuf == 4
MaxBurst == 2

GuestSockFd == 3
GuestEpollFd == 4

\* the ids the server puts in its messages: its evdev fds
DeviceIds == (ListenFd + 1)..(ListenFd + MaxIds)

GuestOpenFds ==
    {0, 1, 2, GuestSockFd, GuestEpollFd}
    \cup {inputs_by_id[i] : i \in DOMAIN inputs_by_id}

\* open("/dev/uinput"): the lowest descriptor not in use
GuestLowestFree ==
    CHOOSE f \in 0..(GuestEpollFd + MaxIds + 1) :
        f \notin GuestOpenFds /\ \A g \in 0..(f - 1) : g \in GuestOpenFds

\* HashMap::remove
Without1(m, k) == [x \in DOMAIN m \ {k} |-> m[x]]

\* the ADD_DEVICE arm: a new uinput handle is opened and registered, then
\* inserted under its id; the insert returns the handle the id had before,
\* which is dropped there and then (the kernel takes a closed fd out of the
\* interest list); fd_to_id gains the new fd and keeps what it had
GuestAddDevice(id) ==
    LET raw == GuestLowestFree
        had == id \in DOMAIN inputs_by_id
        old == IF had THEN {inputs_by_id[id]} ELSE {}
    IN  /\ guest_pc = "wait"
        /\ guest_epoll' = (guest_epoll \cup {raw}) \ old
        /\ inputs_by_id' = (id :> raw) @@ inputs_by_id
        /\ fd_to_id' = (raw :> id) @@ fd_to_id
        /\ guest_last' = GuestDid("add", id,
                                  {<<f, f \in guest_epoll>> : f \in old}, {})
        /\ UNCHANGED <<up, guest_pc, serverVars, rd>>

\* a REMOVE_DEVICE arm that only takes the id out of inputs_by_id and lets
\* go of the handle without closing it
GuestRemoveDeviceMapOnly(id) ==
    /\ guest_pc = "wait"
    /\ inputs_by_id' = Without1(inputs_by_id, id)
    /\ guest_last' = GuestDid("remove", id, {}, {})
    /\ UNCHANGED <<fd_to_id, guest_epoll, guest_pc, up, serverVars, rd>>

\* the REMOVE_DEVICE arm
GuestRemoveDevice(id) ==
    /\ guest_pc = "wait"
    /\ IF id \in DOMAIN inputs_by_id
       THEN LET raw == inputs_by_id[id]
            IN  /\ inputs_by_id' = Without1(inputs_by_id, id)
                /\ fd_to_id' = Without1(fd_to_id, raw)
                /\ IF raw \in guest_epoll
                   THEN /\ guest_epoll' = guest_epoll \ {raw}
                        /\ guest_pc' = "wait"
                        /\ guest_last' = GuestDid("remove", id, {<<raw, FALSE>>}, {})
                   ELSE \* epoll.delete(..).unwrap()
                        /\ guest_epoll' = guest_epoll
                        /\ guest_pc' = "panic"
                        /\ guest_last' = GuestDid("remove", id, {}, {})
       ELSE /\ guest_last' = GuestDid("remove", id, {}, {})
            /\ UNCHANGED <<inputs_by_id, fd_to_id, guest_epoll, guest_pc>>
    /\ UNCHANGED <<up, serverVars, rd>>

\* the INPUT_EVENT arm as it would be if an event for an id the guest does
\* not hold went to some device the guest does hold
GuestInputEventAny(id) ==
    /\ guest_pc = "wait"
    /\ guest_last' = GuestDid("input", id, {},
                              IF id \in DOMAIN inputs_by_id
                              THEN {inputs_by_id[id]}
                              ELSE {inputs_by_id[i] : i \in DOMAIN inputs_by_id})
    /\ UNCHANGED <<inputs_by_id, fd_to_id, guest_epoll, up, guest_pc, serverVars, rd>>

\* the INPUT_EVENT arm
GuestInputEvent(id) ==
    /\ guest_pc = "wait"
    /\ guest_last' = GuestDid("input", id, {},
                              IF id \in DOMAIN inputs_by_id
                              THEN {inputs_by_id[id]}
                              ELSE {})
    /\ UNCHANGED <<inputs_by_id, fd_to_id, guest_epoll, up, guest_pc, serverVars, rd>>

\* a tag that is none of the three
GuestUnknownMessage ==
    /\ guest_pc = "wait"
    /\ guest_pc' = "panic"
    /\ guest_last' = GuestDid("unknown", 0, {}, {})
    /\ UNCHANGED <<inputs_by_id, fd_to_id, guest_epoll, up, serverVars, rd>>

\* the synthetic-fd arm, k events pending on the device: for each, a tag and
\* an InputEvent go upstream with write_all on the blocking socket, which
\* does not return while the socket's buffer is full
GuestUinputReadable(fd, k) ==
    /\ guest_pc = "wait"
    /\ fd \in guest_epoll
    /\ IF fd \in DOMAIN fd_to_id
       THEN IF fd_to_id[fd] \in DOMAIN inputs_by_id
            THEN /\ guest_last' = GuestDid("uinput", fd_to_id[fd], {}, {})
                 /\ IF up + 2 * k <= MaxSockBuf
                    THEN /\ up' = up + 2 * k
                         /\ guest_pc' = "wait"
                    ELSE /\ up' = MaxSockBuf
                         /\ guest_pc' = "blocked"
            ELSE \* inputs_by_id.get(&id).unwrap()
                 /\ guest_pc' = "panic"
                 /\ guest_last' = GuestDid("uinput", fd_to_id[fd], {}, {})
                 /\ up' = up
       ELSE /\ guest_last' = GuestDid("uinput_unknown", 0, {}, {})
            /\ UNCHANGED <<up, guest_pc>>
    /\ UNCHANGED <<inputs_by_id, fd_to_id, guest_epoll, serverVars, rd>>

\* the server's arm for this client's socket, the client being ready: it
\* goes back to epoll.wait without reading, whatever the guest has written
ServerReadyWake ==
    /\ guest_pc # "panic"
    /\ up > 0
    /\ last' = Did("ready_wake", ListenFd + 1, {})
    /\ UNCHANGED <<plugged, uevq, nUev, nNoise, nInput, nEnv, fds_to_devs,
                   names_to_fds, nextSerial, clients, nConn, epoll, pc, cur>>
    /\ UNCHANGED <<guestVars, rd>>

\* the server drops the connection (a write of its own to this client
\* failed, or it exits): the guest's pending or next socket call fails and
\* its unwrap ends the process
ServerHangup ==
    /\ guest_pc # "panic"
    /\ guest_pc' = "panic"
    /\ guest_last' = GuestDid("hangup", 0, {}, {})
    /\ UNCHANGED <<inputs_by_id, fd_to_id, guest_epoll, up, serverVars, rd>>

GuestNext ==
    \/ \E id \in DeviceIds : GuestAddDevice(id)
    \/ \E id \in DeviceIds : GuestRemoveDevice(id)
    \/ \E id \in DeviceIds : GuestInputEvent(id)
    \/ GuestUnknownMessage
    \/ \E fd \in guest_epoll : \E k \in 1..MaxBurst : GuestUinputReadable(fd, k)
    \/ ServerReadyWake
    \/ ServerHangup

GuestSpec == Init /\ [][GuestNext]_vars

\* the server's reactor takes the readiness it is given; what the guest is
\* sent, what its devices report and whether the server hangs up is up to
\* the environment
GuestFairSpec == GuestSpec /\ WF_vars(ServerReadyWake)

\* C12: the guest does not stay inside an upstream write forever: whenever
\* it is in write_all on the full socket, the write returns (or fails)
\* later.  (Stated as claimed; the server never reads a ready client's
\* socket, so nothing empties the buffer.)
C12_UpstreamWriteReturns == (guest_pc = "blocked") ~> (guest_pc # "blocked")

(* ------------------- messages for ids the guest lacks ----------------- *)

UnknownId(id) == id \notin DOMAIN inputs_by_id

\* C13: on the guest, a RemoveDevice for an id that is not in inputs_by_id
\* leaves both maps and the registered fds as they were, and an InputEvent
\* for such an id writes to no synthetic device and changes no state.
C13_Step ==
    /\ (guest_last'.op = "remove" /\ guest_last' # guest_last
            /\ UnknownId(guest_last'.id))
          => UNCHANGED <<inputs_by_id, fd_to_id, guest_epoll>>
    /\ (guest_last'.op = "input" /\ UnknownId(guest_last'.id))
          => /\ guest_last'.wrote = {}
             /\ UNCHANGED <<inputs_by_id, fd_to_id, guest_epoll, up, guest_pc>>
C13_UnknownIdIgnored == [][C13_Step]_vars

\* an InputEvent for an id the guest lacks while it holds another device
C13_Witness ==
    /\ guest_last.op = "input"
    /\ UnknownId(guest_last.id)
    /\ inputs_by_id # <<>>
    /\ guest_pc = "wait"

(* ----------------------- the server's two maps ------------------------ *)

NamesOf(fd) == {n \in DOMAIN names_to_fds : names_to_fds[n] = fd}

\* C14: the server's registry maps are in bijection: every fd key of
\* fds_to_devs is the value of exactly one sysname in names_to_fds, and
\* every value of names_to_fds is a key of fds_to_devs.  (Stated as
\* claimed, adds for a registered sysname included; the code does not keep
\* it for those.)
C14_RegistryBijection ==
    /\ \A fd \in DOMAIN fds_to_devs : Cardinality(NamesOf(fd)) = 1
    /\ \A n \in DOMAIN names_to_fds : names_to_fds[n] \in DOMAIN fds_to_devs

HandlesOf(n) == {fd \in DOMAIN fds_to_devs : fds_to_devs[fd].name = n}

\* C15: an add for a sysname that is already registered leaves what a
\* single add leaves: the registry holds at most one open handle for a
\* sysname, that handle is the one names_to_fds gives and is registered
\* with epoll, and once the sysname has been removed no handle for it is
\* left.  (Stated as claimed; the code keeps the earlier handle.)
C15_SingleEntryPerName ==
    \A n \in Names :
        /\ Cardinality(HandlesOf(n)) <= 1
        /\ HandlesOf(n) \subseteq epoll
        /\ n \in DOMAIN names_to_fds => HandlesOf(n) = {names_to_fds[n]}
        /\ n \notin DOMAIN names_to_fds => HandlesOf(n) = {}

(* ------------------------ the guest's two maps ------------------------ *)

\* C16: the guest's maps are in bijection: each id in inputs_by_id has
\* exactly one fd_to_id entry, whose key is that device's fd, and fd_to_id
\* has no other entry.  (Stated as claimed, an AddDevice for an id already
\* present included; the code does not keep it for those.)
C16_GuestMapsBijection ==
    /\ \A id \in DOMAIN inputs_by_id :
          {f \in DOMAIN fd_to_id : fd_to_id[f] = id} = {inputs_by_id[id]}
    /\ \A f \in DOMAIN fd_to_id : fd_to_id[f] \in DOMAIN inputs_by_id

(* ------------------ deregistration before destruction ----------------- *)

\* C20: no handle is closed while its fd is still registered with the
\* reactor; on the guest: every synthetic device a step closes was taken
\* out of the guest's epoll before.  (Stated as claimed, a device replaced
\* by an AddDevice for its id included; the code closes that one while it
\* is registered.)
C20_GuestDeregisteredBeforeClose ==
    \A c \in guest_last.closed : c[2] = FALSE

(* ----------------------- the partial-read buffer ---------------------- *)

\* C17 as stated: for every client, between the reactor's iterations,
\* 0 <= filled <= buf.len() and filled is not buf.len().  (A client that
\* has read nothing, or whose read has just completed, has an empty buf and
\* filled = 0.)
C17_FilledNeverLen ==
    \A fd \in DOMAIN clients :
        /\ 0 <= clients[fd].filled
        /\ clients[fd].filled <= Len(clients[fd].buf)
        /\ clients[fd].filled # Len(clients[fd].buf)

\* C17: for every client, between the reactor's iterations,
\* 0 <= filled <= buf.len(), and filled equals buf.len() only when both are
\* 0: a buffer that holds bytes is never full (a completed read empties buf
\* and resets filled before the iteration ends).
C17_FilledWithinBuf ==
    \A fd \in DOMAIN clients :
        /\ 0 <= clients[fd].filled
        /\ clients[fd].filled <= Len(clients[fd].buf)
        /\ clients[fd].filled = Len(clients[fd].buf) => Len(clients[fd].buf) = 0

\* a client after a read has completed and another that is part way
C17_Witness ==
    \E a, b \in DOMAIN clients :
        /\ clients[a].ready /\ clients[a].buf = <<>> /\ clients[a].filled = 0
        /\ 0 < clients[b].filled /\ clients[b].filled < Len(clients[b].buf)

(* --------------------------- Client::read ----------------------------- *)

MaxSize == 4
MaxStream == 6

\* the client after the call, with what the call was given and returned
ReadResult(size, chunk, r) ==
    [buf |-> r.client.buf, filled |-> r.client.filled, size |-> size,
     reply |-> r.reply, data |-> r.data,
     nxt |-> rd.nxt + Len(chunk),
     base |-> IF Len(rd.buf) = 0 THEN rd.nxt ELSE rd.base,
     was |-> rd.filled, n |-> Len(chunk)]

\* the client is still there to be read from
ReadLive == rd.reply \notin {"Hangup", "panic"}

\* Client::read(size), read(2) returning the next n bytes of the stream
ReadSome(size, n) ==
    /\ ReadLive
    /\ Len(rd.buf) \in {0, size}
    /\ n \in 1..(size - rd.filled)
    /\ rd.nxt + n - 1 <= MaxStream
    /\ LET chunk == [i \in 1..n |-> rd.nxt + i - 1]
       IN  rd' = ReadResult(size, chunk, ClientRead(rd, size, chunk))
    /\ UNCHANGED <<serverVars, guestVars>>

\* Client::read(size), read(2) returning 0: the peer has closed
ReadEof(size) ==
    /\ ReadLive
    /\ Len(rd.buf) \in {0, size}
    /\ rd' = ReadResult(size, <<>>, ClientRead(rd, size, <<>>))
    /\ UNCHANGED <<serverVars, guestVars>>

\* Client::read(size) with a buffer of another size: panic!("api misuse")
ReadMisuse(size) ==
    /\ ReadLive
    /\ Len(rd.buf) \notin {0, size}
    /\ rd' = [rd EXCEPT !.reply = "panic", !.size = size, !.data = <<>>,
                        !.was = rd.filled, !.n = 0]
    /\ UNCHANGED <<serverVars, guestVars>>

ReadNext ==
    \/ \E size \in 1..MaxSize : \E n \in 1..MaxSize : ReadSome(size, n)
    \/ \E size \in 1..MaxSize : ReadEof(size)
    \/ \E size \in 1..MaxSize : ReadMisuse(size)

ReadSpec == Init /\ [][ReadNext]_vars

\* bytes base, base + 1, ... of the stream, k of them
StreamFrom(base, k) == [i \in 1..k |-> base + i - 1]

\* C18: Client::read(size) reads once into the unfilled tail and, however
\* the size bytes are split over the calls: replies Hangup on a 0-byte
\* read; replies NotReady while fewer than size bytes have accumulated,
\* keeping the bytes read so far in arrival order; and on the read that
\* brings filled to size replies with exactly the size bytes in arrival
\* order, leaving buf empty and filled 0.
C18_ReadReply ==
    /\ rd.reply = "Hangup" <=> (rd.reply \notin {"none", "panic"} /\ rd.n = 0)
    /\ rd.reply = "NotReady" =>
          /\ rd.was + rd.n < rd.size
          /\ rd.filled = rd.was + rd.n
          /\ Len(rd.buf) = rd.size
          /\ SubSeq(rd.buf, 1, rd.filled) = StreamFrom(rd.base, rd.filled)
          /\ rd.data = <<>>
    /\ rd.reply = "Data" =>
          /\ rd.was + rd.n = rd.size
          /\ rd.data = StreamFrom(rd.base, rd.size)
          /\ rd.buf = <<>>
          /\ rd.filled = 0
    /\ rd.reply \in {"NotReady", "Data"} => rd.nxt = rd.base + rd.was + rd.n

\* a message after the first, completed by a read that was not its first
C18_Witness ==
    /\ rd.reply = "Data"
    /\ rd.base > 1
    /\ rd.was > 0
    /\ rd.n > 1

(* --------------------------- the ready flag --------------------------- *)

\* client fd is in the table before and after the step and ready only after
BecomesReady(fd) ==
    /\ fd \in DOMAIN clients \cap DOMAIN clients'
    /\ ~clients[fd].ready
    /\ clients'[fd].ready

\* the frames nw are a ServerHello and one complete AddDevice sequence for
\* every handle of the registry
IsHelloReply(nw) ==
    LET n   == Cardinality(DOMAIN fds_to_devs)
        ids == AddSeqIds(nw, 2, n)
    IN  /\ nw # <<>>
        /\ nw[1].t = "ServerHello"
        /\ Len(ids) = n
        /\ Range(ids) = {U32(f) : f \in DOMAIN fds_to_devs}

\* a ready client has had its ServerHello and holds no byte of its hello
ReadyAfterHello ==
    \A fd \in DOMAIN clients :
        clients[fd].ready =>
            /\ clients[fd].buf = <<>> /\ clients[fd].filled = 0
            /\ \E i \in DOMAIN clients[fd].out : clients[fd].out[i].t = "ServerHello"
            /\ fd \in epoll

C19_Step ==
    /\ \A fd \in DOMAIN clients \cap DOMAIN clients' :
          /\ clients[fd].ready => clients'[fd].ready
          /\ BecomesReady(fd) =>
                /\ last' = Did("hello", fd, {})
                /\ clients'[fd].buf = <<>> /\ clients'[fd].filled = 0
                /\ IsPrefix(clients[fd].out, clients'[fd].out)
                /\ IsHelloReply(Suffix(clients[fd].out, clients'[fd].out))
    /\ (last' # last /\ last'.op = "hello" /\ last'.dropped # {}) =>
          /\ last'.id \in DOMAIN clients
          /\ ~clients[last'.id].ready
          /\ last'.id \notin DOMAIN clients'
    /\ \A fd \in DOMAIN clients \ DOMAIN clients' : fd \notin epoll'
    /\ (last' # last /\ last'.op \in {"read", "hello", "ready_wake"}) =>
          last'.id \in DOMAIN clients

\* C19: a client becomes ready only in the step that has read its
\* ClientHello to the end and written the ServerHello and an AddDevice
\* sequence for every device; a hello whose write fails removes the client,
\* which was not ready; ready never goes back to false; a client that is
\* removed is deregistered, and no step handles a client that is not in the
\* table.
C19_ReadyLifecycle == []ReadyAfterHello /\ [][C19_Step]_vars

\* one client is ready, and the hello of another has just failed
C19_Witness ==
    /\ last.op = "hello"
    /\ last.dropped # {}
    /\ \E fd \in DOMAIN clients :
          /\ clients[fd].ready
          /\ fds_to_devs # <<>>

(* --------------------------- "api misuse" ----------------------------- *)

\* no client's buf has a length that Client::read(HelloSize) refuses
BufLenIsHelloOrZero ==
    /\ pc # "panic"
    /\ \A fd \in DOMAIN clients : Len(clients[fd].buf) \in {0, HelloSize}

\* a step that reads a client's socket reads a client that is not ready
ReadsOnlyNotReady ==
    (last' # last /\ last'.op \in {"read", "hello"}) =>
        /\ last'.id \in DOMAIN clients
        /\ ~clients[last'.id].ready

\* C21: the "api misuse" abort of Client::read is never reached in the
\* server: every client's buf.len() is 0 or the ClientHello size in every
\* state, and the client arm reads only clients that are not ready (and
\* only with the ClientHello size).
C21_NoApiMisuse == []BufLenIsHelloOrZero /\ [][ReadsOnlyNotReady]_vars

\* a client one byte short of its ClientHello after a read, its buf sized
\* for the hello, beside a client that is ready
C21_Witness ==
    \E a, b \in DOMAIN clients :
        /\ last = Did("read", a, {})
        /\ Len(clients[a].buf) = HelloSize
        /\ clients[a].filled = HelloSize - 1
        /\ clients[b].ready

(* ------------------- the guest's synthetic-fd lookup ------------------ *)

\* the fds a readiness event can name that the synthetic-fd arm looks up
Dispatchable == guest_epoll \cap DOMAIN fd_to_id

\* the unwrap of inputs_by_id.get(&id) has ended the guest
UnwrapFailed == guest_pc = "panic" /\ guest_last.op = "uinput"

\* C22: on the guest, every registered fd that is a key of fd_to_id maps to
\* an id that inputs_by_id holds, so the lookup-and-unwrap of the
\* synthetic-fd arm never fails, whatever AddDevice and RemoveDevice
\* messages came before (ids already present and fd numbers used again
\* included).
C22_LookupNeverFails ==
    /\ \A fd \in Dispatchable : fd_to_id[fd] \in DOMAIN inputs_by_id
    /\ ~UnwrapFailed

\* a device's events were sent upstream while fd_to_id holds an entry, left
\* by a replaced handle, whose id has been removed since
C22_Witness ==
    /\ guest_last.op = "uinput"
    /\ guest_pc = "wait"
    /\ \E f \in DOMAIN fd_to_id : fd_to_id[f] \notin DOMAIN inputs_by_id

(* ------------------------- the interest list -------------------------- *)

\* the fds main registers before the loop
FixedFds == {UdevFd, ListenFd}

\* C23: in every state of the server's loop the fds registered with epoll
\* are the hotplug fd, the listen fd, the keys of the client table and the
\* keys of fds_to_devs, and no fd is in two of these groups: every
\* readiness event has exactly one live owner, and every epoll delete (all
\* of them are of a key of one of the two tables) finds its fd registered.
C23_EpollIsOwners ==
    /\ epoll = FixedFds \cup DOMAIN clients \cup DOMAIN fds_to_devs
    /\ UdevFd # ListenFd
    /\ FixedFds \cap DOMAIN clients = {}
    /\ FixedFds \cap DOMAIN fds_to_devs = {}
    /\ DOMAIN clients \cap DOMAIN fds_to_devs = {}

\* a broadcast has just dropped one client and kept another, with a device
\* in the registry
C23_Witness ==
    /\ last.op \in {"add", "remove", "evdev"}
    /\ last.dropped # {}
    /\ DOMAIN clients # {}
    /\ DOMAIN fds_to_devs # {}

=============================================================================
